---- MODULE Spec2Model ----
(***************************************************************************)
(* Model of the BigQuery FastMCP server (src/server.py): the tool-serving   *)
(* facade (seven tools and main), the data-access wrapper BigQueryDatabase, *)
(* and the remote BigQuery service reached through self.client.  The remote *)
(* service is the environment: each remote call either answers according   *)
(* to the remote state or fails with a transient error chosen by env.       *)
(***************************************************************************)
EXTENDS Integers, Sequences, FiniteSets, TLC

(* ------------------------------ bounds --------------------------------- *)
\* the remote project holds at most MaxBatches batches of sample rows
MaxBatches == 1

(* --------------------------- python strings ---------------------------- *)
Char(s, i) == SubSeq(s, i, i)

\* str.find: index of the first occurrence of sub in s, 0 when absent
Find(s, sub) ==
    LET hits == {i \in 1..(Len(s) - Len(sub) + 1) : SubSeq(s, i, i + Len(sub) - 1) = sub}
    IN  IF hits = {} THEN 0 ELSE CHOOSE i \in hits : \A j \in hits : i <= j

\* python: sub in s
Contains(s, sub) == Find(s, sub) # 0

RECURSIVE Split(_, _)
\* python: s.split(sep)
Split(s, sep) ==
    LET i == Find(s, sep)
    IN  IF i = 0 THEN <<s>>
        ELSE <<SubSeq(s, 1, i - 1)>> \o Split(SubSeq(s, i + Len(sep), Len(s)), sep)

RECURSIVE Join(_, _)
\* python: sep.join(parts)
Join(parts, sep) ==
    IF Len(parts) = 0 THEN ""
    ELSE IF Len(parts) = 1 THEN parts[1]
    ELSE parts[1] \o sep \o Join(Tail(parts), sep)

RECURSIVE Concat(_)
\* "".join(parts)
Concat(parts) ==
    IF Len(parts) = 0 THEN ""
    ELSE IF Len(parts) = 1 THEN parts[1]
    ELSE LET m == Len(parts) \div 2
         IN  Concat(SubSeq(parts, 1, m)) \o Concat(SubSeq(parts, m + 1, Len(parts)))

\* body of repr(s): backslash, newline and the chosen quote are escaped
Escape(s, q) ==
    Concat([i \in 1..Len(s) |->
        LET ch == Char(s, i)
        IN  IF ch = "\\" THEN "\\\\"
            ELSE IF ch = "\n" THEN "\\n"
            ELSE IF ch = q THEN "\\" \o q
            ELSE ch])

\* python: repr(s) of a str
ReprStr(s) ==
    LET q == IF Contains(s, "'") /\ ~Contains(s, "\"") THEN "\"" ELSE "'"
    IN  q \o Escape(s, q) \o q

\* python: str(list of str)
StrListOfStr(xs) == "[" \o Join([i \in 1..Len(xs) |-> ReprStr(xs[i])], ", ") \o "]"

\* a dict entry is [name, type, value]; value is an integer when type = "INTEGER"
ReprField(f) ==
    ReprStr(f.name) \o ": " \o
        (IF f.type = "INTEGER" THEN ToString(f.value) ELSE ReprStr(f.value))

\* python: repr of a dict given as a sequence of entries
ReprDict(d) == "{" \o Join([i \in 1..Len(d) |-> ReprField(d[i])], ", ") \o "}"

\* python: str(list of dict)
StrListOfDict(ds) == "[" \o Join([i \in 1..Len(ds) |-> ReprDict(ds[i])], ", ") \o "]"

(* ------------------------- callers' inputs ----------------------------- *)
\* dataset_name arguments, in the order the service lists datasets
DatasetOrder == <<"d1", "d2">>
DatasetNames == {DatasetOrder[i] : i \in 1..Len(DatasetOrder)}
\* the seeds that drive random.choice and uuid4 in insert_sample_data
Seeds == {1, 3}
SampleTables == <<"departments", "employees">>
TableKeys == DatasetNames \X {"departments", "employees"}

\* table_name arguments given to describe_table
TableNameInputs ==
    {"", "departments", "d1.departments", "p1.d1.employees", "a.b.c.d"}

\* query arguments given to execute_query
SqlInputs ==
    {"SELECT 1", "SELEC 1", "DROP TABLE d1.departments", "DROP TABLE d1.employees",
     "DELETE FROM d1.departments WHERE TRUE"}

\* messages of the failures a remote call can suffer whatever the remote state
TransientMsgs ==
    {"503 Service Unavailable"}

\* per invocation: the remote call that fails (0: none), the insert that
\* reports row errors (0: none), and the seed of random / uuid, for a tool
\* that issues at most nCalls remote calls, nInserts of them inserts.  The
\* first fault ends the invocation, so one fault per invocation is all there is;
\* the seed shows only in employee rows that are inserted, so an invocation
\* with a fault takes the first seed.
Envs(nCalls, nInserts) ==
    {e \in [failAt : 0..nCalls, msg : TransientMsgs, rowErr : 0..nInserts,
            seed : IF nInserts = 0 THEN {1} ELSE Seeds] :
        /\ e.failAt = 0 \/ e.rowErr = 0
        /\ e.seed = 1 \/ (e.failAt = 0 /\ e.rowErr = 0)}

(* ----------------------------- exceptions ------------------------------ *)
NoExc == [type |-> "None", msg |-> ""]
Exc(t, m) == [type |-> t, msg |-> m]

\* isinstance(e, Exception) for the exception classes the wrapper can surface
IsException(e) ==
    e.type \in {"ValueError", "RuntimeError", "Conflict", "NotFound",
                "BadRequest", "ServiceUnavailable"}

(* ------------------- one invocation's running context ------------------ *)
\* remote state as seen so far, the remote calls issued so far (an insert's
\* payload is logged as its number of rows), and the outcome (exception or
\* returned value) of the last step
Ctx(project, ds, tb, rw, env) ==
    [project |-> project, datasets |-> ds, tables |-> tb, rows |-> rw,
     calls |-> <<>>, env |-> env, exc |-> NoExc, val |-> <<>>]

Ret(c, v) == [c EXCEPT !.exc = NoExc, !.val = v]
Raise(c, e) == [c EXCEPT !.exc = e, !.val = <<>>]
Log(c, api, target, payload, ok) ==
    [c EXCEPT !.calls = Append(@, [api |-> api, target |-> target,
                                   payload |-> payload, ok |-> ok])]

\* the next remote call is the one env makes fail
Transient(c) == c.env.failAt = Len(c.calls) + 1
TransientExc(c) == Exc("ServiceUnavailable", c.env.msg)

NumInserts(c) == Len(SelectSeq(c.calls, LAMBDA k : k.api = "insert_rows_json"))

(* ------------------------ the remote service --------------------------- *)
\* the errors the service answers with; the message is what str(e) gives
AlreadyExists(c, kind, ref) ==
    Exc("Conflict", "409 Already Exists: " \o kind \o " " \o c.project \o ":" \o ref)
NotFound(c, kind, ref) ==
    Exc("NotFound", "404 Not found: " \o kind \o " " \o c.project \o ":" \o ref)

\* self.client.create_dataset(dataset)
client_create_dataset(c, name, location) ==
    IF Transient(c)
    THEN Raise(Log(c, "create_dataset", name, location, FALSE), TransientExc(c))
    ELSE IF name \in c.datasets
    THEN Raise(Log(c, "create_dataset", name, location, FALSE),
               AlreadyExists(c, "Dataset", name))
    ELSE Ret([Log(c, "create_dataset", name, location, TRUE)
                 EXCEPT !.datasets = @ \cup {name}], name)

\* self.client.create_table(table)
client_create_table(c, dataset, table, schema) ==
    LET target == dataset \o "." \o table IN
    IF Transient(c)
    THEN Raise(Log(c, "create_table", target, schema, FALSE), TransientExc(c))
    ELSE IF dataset \notin c.datasets
    THEN Raise(Log(c, "create_table", target, schema, FALSE),
               NotFound(c, "Dataset", dataset))
    ELSE IF <<dataset, table>> \in c.tables
    THEN Raise(Log(c, "create_table", target, schema, FALSE),
               AlreadyExists(c, "Table", target))
    ELSE Ret([Log(c, "create_table", target, schema, TRUE)
                 EXCEPT !.tables = @ \cup {<<dataset, table>>},
                        !.rows[<<dataset, table>>] = <<>>], target)

\* the row-level errors payload insert_rows_json returns
RowErrors ==
    << << [name |-> "index", type |-> "INTEGER", value |-> 0],
          [name |-> "reason", type |-> "STRING", value |-> "invalid"] >> >>

\* self.client.insert_rows_json(table, json_rows): returns the list of row errors
client_insert_rows_json(c, table, json_rows) ==
    LET parts == Split(table, ".")
        key == <<parts[2], parts[3]>>
    IN  IF Transient(c)
        THEN Raise(Log(c, "insert_rows_json", table, Len(json_rows), FALSE), TransientExc(c))
        ELSE IF parts[1] # c.project \/ key \notin c.tables
        THEN Raise(Log(c, "insert_rows_json", table, Len(json_rows), FALSE),
                   NotFound(c, "Table", parts[2] \o "." \o parts[3]))
        ELSE IF c.env.rowErr = NumInserts(c) + 1
        THEN Ret(Log(c, "insert_rows_json", table, Len(json_rows), FALSE), RowErrors)
        ELSE Ret([Log(c, "insert_rows_json", table, Len(json_rows), TRUE)
                     EXCEPT !.rows[key] = @ \o json_rows], <<>>)

\* the datasets of the project, in the order the service lists them
DatasetSeq(c) ==
    SelectSeq(DatasetOrder, LAMBDA d : d \in c.datasets)

\* the table ids of a dataset, in the order the service lists them
TableSeq(c, dataset) ==
    SelectSeq(SampleTables, LAMBDA t : <<dataset, t>> \in c.tables)

\* list(self.client.list_datasets())
client_list_datasets(c) ==
    IF Transient(c)
    THEN Raise(Log(c, "list_datasets", "", <<>>, FALSE), TransientExc(c))
    ELSE Ret(Log(c, "list_datasets", "", <<>>, TRUE), DatasetSeq(c))

\* self.client.list_tables(dataset_id), iterated to the end
client_list_tables(c, dataset_id) ==
    IF Transient(c)
    THEN Raise(Log(c, "list_tables", dataset_id, <<>>, FALSE), TransientExc(c))
    ELSE IF dataset_id \notin c.datasets
    THEN Raise(Log(c, "list_tables", dataset_id, <<>>, FALSE),
               NotFound(c, "Dataset", dataset_id))
    ELSE Ret(Log(c, "list_tables", dataset_id, <<>>, TRUE), TableSeq(c, dataset_id))

\* the DDL text INFORMATION_SCHEMA.TABLES holds for a sample table
DdlOf(c, dataset, table) ==
    "CREATE TABLE " \o c.project \o "." \o dataset \o "." \o table \o "\n(\n"
    \o (IF table = "departments"
        THEN "  dept_id STRING NOT NULL,\n  dept_name STRING NOT NULL\n"
        ELSE "  emp_id STRING NOT NULL,\n  emp_name STRING NOT NULL,\n  dept_id STRING NOT NULL\n")
    \o ");"

\* the dataset a FROM <dataset_id>.INFORMATION_SCHEMA.TABLES clause names,
\* the view's name starting at position view
SchemaViewDataset(query, view) ==
    SubSeq(query, Find(query, "FROM ") + 5, view - 1)

\* a dataset reference resolved in the client's project ("" when it is none)
ResolveDataset(c, dataset_id) ==
    LET parts == Split(dataset_id, ".")
    IN  IF Len(parts) = 1 THEN parts[1]
        ELSE IF Len(parts) = 2 /\ parts[1] = c.project THEN parts[2]
        ELSE ""

\* job = self.client.query(query[, job_config]); job.result(); rows as dicts
client_query(c, query, params) ==
    LET w == Split(query, " ")
        c0 == Log(c, "query", query, params, FALSE)
        c1 == Log(c, "query", query, params, TRUE)
        view == Find(query, ".INFORMATION_SCHEMA.TABLES")
    IN  IF Transient(c) THEN Raise(c0, TransientExc(c))
        ELSE IF view # 0
        THEN LET dataset_id == SchemaViewDataset(query, view)
                 dataset == ResolveDataset(c, dataset_id)
                 named == SelectSeq(params, LAMBDA p : p.name = "table_name")
             IN  IF Len(named) = 0
                 THEN Raise(c0, Exc("BadRequest", "400 Query parameter 'table_name' not found"))
                 ELSE IF dataset \notin c.datasets
                 THEN Raise(c0, NotFound(c, "Dataset", dataset_id))
                 ELSE Ret(c1, [i \in 1..Len(SelectSeq(TableSeq(c, dataset),
                                                      LAMBDA t : t = named[1].value))
                               |-> << [name |-> "ddl", type |-> "STRING",
                                       value |-> DdlOf(c, dataset, named[1].value)] >>])
        ELSE IF query = "SELECT 1"
        THEN Ret(c1, << << [name |-> "f0_", type |-> "INTEGER", value |-> 1] >> >>)
        ELSE IF Len(w) = 3 /\ w[1] = "DROP" /\ w[2] = "TABLE" /\ Len(Split(w[3], ".")) = 2
        THEN LET key == Split(w[3], ".")
             IN  IF key \notin c.tables THEN Raise(c0, NotFound(c, "Table", w[3]))
                 ELSE Ret([c1 EXCEPT !.tables = @ \ {key}, !.rows[key] = <<>>], <<>>)
        ELSE IF Len(w) = 5 /\ w[1] = "DELETE" /\ w[2] = "FROM" /\ w[4] = "WHERE"
                /\ w[5] = "TRUE" /\ Len(Split(w[3], ".")) = 2
        THEN LET key == Split(w[3], ".")
             IN  IF key \notin c.tables THEN Raise(c0, NotFound(c, "Table", w[3]))
                 ELSE Ret([c1 EXCEPT !.rows[key] = <<>>], <<>>)
        ELSE Raise(c0, Exc("BadRequest", "400 Syntax error: Unexpected identifier \""
                                         \o w[1] \o "\" at [1:1]"))

(* --------------------- BigQueryDatabase (the wrapper) ------------------ *)
\* BigQueryDatabase.execute_query: the error is logged and re-raised unchanged
db_execute_query(c, query, params) == client_query(c, query, params)

RECURSIVE list_tables_loop_bare(_, _, _)
\* variant of the loop: the table ids without the dataset prefix
list_tables_loop_bare(c, dsets, acc) ==
    IF Len(dsets) = 0 THEN Ret(c, acc)
    ELSE LET c1 == client_list_tables(c, Head(dsets))
         IN  IF c1.exc # NoExc THEN c1
             ELSE list_tables_loop_bare(c1, Tail(dsets), acc \o c1.val)

RECURSIVE list_tables_loop(_, _, _)
\* the for loop of BigQueryDatabase.list_tables over the listed datasets
list_tables_loop(c, dsets, acc) ==
    IF Len(dsets) = 0 THEN Ret(c, acc)
    ELSE LET c1 == client_list_tables(c, Head(dsets))
         IN  IF c1.exc # NoExc THEN c1
             ELSE list_tables_loop(c1, Tail(dsets),
                      acc \o [i \in 1..Len(c1.val) |-> Head(dsets) \o "." \o c1.val[i]])

\* BigQueryDatabase.list_tables
db_list_tables(c) ==
    LET c1 == client_list_datasets(c)
    IN  IF c1.exc # NoExc THEN c1 ELSE list_tables_loop(c1, c1.val, <<>>)

\* the f-string query of describe_table
DescribeQuery(dataset_id) ==
    "\n            SELECT ddl\n            FROM " \o dataset_id
    \o ".INFORMATION_SCHEMA.TABLES\n            WHERE table_name = @table_name;\n        "

\* variant of describe_table: only names of fewer than 2 segments are rejected
db_describe_table_lax(c, table_name) ==
    LET parts == Split(table_name, ".")
    IN  IF Len(parts) < 2
        THEN Raise(c, Exc("ValueError", "Invalid table name: " \o table_name))
        ELSE LET dataset_id == Join(SubSeq(parts, 1, Len(parts) - 1), ".")
                 table_id == parts[Len(parts)]
             IN  db_execute_query(c, DescribeQuery(dataset_id),
                     << [name |-> "table_name", type |-> "STRING", value |-> table_id] >>)

\* BigQueryDatabase.describe_table
db_describe_table(c, table_name) ==
    LET parts == Split(table_name, ".")
    IN  IF Len(parts) # 2 /\ Len(parts) # 3
        THEN Raise(c, Exc("ValueError", "Invalid table name: " \o table_name))
        ELSE LET dataset_id == Join(SubSeq(parts, 1, Len(parts) - 1), ".")
                 table_id == parts[Len(parts)]
             IN  db_execute_query(c, DescribeQuery(dataset_id),
                     << [name |-> "table_name", type |-> "STRING", value |-> table_id] >>)

\* variant of create_dataset: the conflict is looked for in lower case
db_create_dataset_lowercase(c, dataset_name, location) ==
    LET c1 == client_create_dataset(c, dataset_name, IF location = "" THEN "US" ELSE location)
    IN  IF c1.exc = NoExc THEN Ret(c1, "Dataset " \o dataset_name \o " created")
        ELSE IF Contains(c1.exc.msg, "already exists")
        THEN Ret(c1, "Dataset " \o dataset_name \o " already exists")
        ELSE c1

\* BigQueryDatabase.create_dataset; location "" stands for None
db_create_dataset(c, dataset_name, location) ==
    LET c1 == client_create_dataset(c, dataset_name, IF location = "" THEN "US" ELSE location)
    IN  IF c1.exc = NoExc THEN Ret(c1, "Dataset " \o dataset_name \o " created")
        ELSE IF Contains(c1.exc.msg, "Already Exists")
        THEN Ret(c1, "Dataset " \o dataset_name \o " already exists")
        ELSE c1

departments_schema ==
    << [name |-> "dept_id", type |-> "STRING", mode |-> "REQUIRED"],
       [name |-> "dept_name", type |-> "STRING", mode |-> "REQUIRED"] >>
employees_schema ==
    << [name |-> "emp_id", type |-> "STRING", mode |-> "REQUIRED"],
       [name |-> "emp_name", type |-> "STRING", mode |-> "REQUIRED"],
       [name |-> "dept_id", type |-> "STRING", mode |-> "REQUIRED"] >>

\* variant of create_sample_tables: a table that exists is accepted (exists_ok)
db_create_sample_tables_exists_ok(c, dataset_name) ==
    LET Ok(x) == IF x.exc.type = "Conflict" THEN Ret(x, <<>>) ELSE x
        c1 == Ok(client_create_table(c, dataset_name, "departments", departments_schema))
        c2 == Ok(client_create_table(c1, dataset_name, "employees", employees_schema))
    IN  IF c1.exc # NoExc THEN c1
        ELSE IF c2.exc # NoExc THEN c2
        ELSE Ret(c2, "Sample tables created")

\* variant of create_sample_tables: employees is created before departments
db_create_sample_tables_employees_first(c, dataset_name) ==
    LET c1 == client_create_table(c, dataset_name, "employees", employees_schema)
        c2 == client_create_table(c1, dataset_name, "departments", departments_schema)
    IN  IF c1.exc # NoExc THEN c1
        ELSE IF c2.exc # NoExc THEN c2
        ELSE Ret(c2, "Sample tables created")

\* BigQueryDatabase.create_sample_tables
db_create_sample_tables(c, dataset_name) ==
    LET c1 == client_create_table(c, dataset_name, "departments", departments_schema)
        c2 == client_create_table(c1, dataset_name, "employees", employees_schema)
    IN  IF c1.exc # NoExc THEN c1
        ELSE IF c2.exc # NoExc THEN c2
        ELSE Ret(c2, "Sample tables created")

\* range(1, 11) and range(1, 51)
NumDepartments == 10
NumEmployees == 50

\* random.choice(seq) at the i-th draw of a run seeded with seed
RandomChoice(seed, i, seq) == seq[((seed * i) % Len(seq)) + 1]

RECURSIVE Hex(_, _)
\* n as width lowercase hexadecimal digits
Hex(n, width) ==
    IF width = 0 THEN ""
    ELSE Hex(n \div 16, width - 1) \o Char("0123456789abcdef", (n % 16) + 1)

\* uuid.uuid4().hex[:8] at the i-th draw
Uuid4Hex8(seed, i) == Hex(seed * 1037389 * i + 12345, 8)

\* the departments list comprehension of insert_sample_data
SampleDepartments ==
    [i \in 1..NumDepartments |->
        [dept_id |-> "dept_" \o ToString(i), dept_name |-> "Department_" \o ToString(i)]]

\* variant of the employees loop: dept_id follows the employee's index
SampleEmployees_by_index(seed, departments) ==
    [i \in 1..NumEmployees |->
        [emp_id |-> "emp_" \o Uuid4Hex8(seed, i),
         emp_name |-> "Employee_" \o ToString(i),
         dept_id |-> "dept_" \o ToString(i)]]

\* the employees loop of insert_sample_data
SampleEmployees(seed, departments) ==
    [i \in 1..NumEmployees |->
        [emp_id |-> "emp_" \o Uuid4Hex8(seed, i),
         emp_name |-> "Employee_" \o ToString(i),
         dept_id |-> RandomChoice(seed, i, departments).dept_id]]

\* the employees list of each seed
SampleEmployeesOf == [seed \in Seeds |-> SampleEmployees(seed, SampleDepartments)]

\* BigQueryDatabase.insert_sample_data
db_insert_sample_data(c, dataset_name) ==
    LET departments == SampleDepartments
        c1 == client_insert_rows_json(c, c.project \o "." \o dataset_name \o ".departments",
                                      departments)
        employees == SampleEmployeesOf[c.env.seed]
        c2 == client_insert_rows_json(c1, c.project \o "." \o dataset_name \o ".employees",
                                      employees)
    IN  IF c1.exc # NoExc THEN c1
        ELSE IF Len(c1.val) > 0
        THEN Raise(c1, Exc("RuntimeError",
                           "Failed to insert departments: " \o StrListOfDict(c1.val)))
        ELSE IF c2.exc # NoExc THEN c2
        ELSE IF Len(c2.val) > 0
        THEN Raise(c2, Exc("RuntimeError",
                           "Failed to insert employees: " \o StrListOfDict(c2.val)))
        ELSE Ret(c2, "Sample data inserted (10 departments, 50 employees)")

\* variant of create_complete_sample: the status lines joined by ", "
db_create_complete_sample_comma(c, dataset_name, location) ==
    LET c1 == db_create_dataset(c, dataset_name, location)
        c2 == db_create_sample_tables(c1, dataset_name)
        c3 == db_insert_sample_data(c2, dataset_name)
    IN  IF c1.exc # NoExc THEN c1
        ELSE IF c2.exc # NoExc THEN c2
        ELSE IF c3.exc # NoExc THEN c3
        ELSE Ret(c3, Join(<<c1.val, c2.val, c3.val>>, ", "))

\* variant of create_complete_sample: a failure restores the remote state the
\* call started in
db_create_complete_sample_rollback(c, dataset_name, location) ==
    LET c1 == db_create_dataset(c, dataset_name, location)
        c2 == db_create_sample_tables(c1, dataset_name)
        c3 == db_insert_sample_data(c2, dataset_name)
        Undo(x) == [x EXCEPT !.datasets = c.datasets, !.tables = c.tables, !.rows = c.rows]
    IN  IF c1.exc # NoExc THEN Undo(c1)
        ELSE IF c2.exc # NoExc THEN Undo(c2)
        ELSE IF c3.exc # NoExc THEN Undo(c3)
        ELSE Ret(c3, Join(<<c1.val, c2.val, c3.val>>, "\n"))

\* BigQueryDatabase.create_complete_sample
db_create_complete_sample(c, dataset_name, location) ==
    LET c1 == db_create_dataset(c, dataset_name, location)
        c2 == db_create_sample_tables(c1, dataset_name)
        c3 == db_insert_sample_data(c2, dataset_name)
    IN  IF c1.exc # NoExc THEN c1
        ELSE IF c2.exc # NoExc THEN c2
        ELSE IF c3.exc # NoExc THEN c3
        ELSE Ret(c3, Join(<<c1.val, c2.val, c3.val>>, "\n"))

(* ------------------------------- state --------------------------------- *)
VARIABLES
    db,         \* the process-wide wrapper: [init, project, location], init FALSE for None
    datasets,   \* remote: the dataset ids of the project
    tables,     \* remote: the <<dataset id, table id>> pairs of the project
    rows,       \* remote: the rows of each table, in insertion order
    last,       \* the last invocation: tool, arguments, remote state it started in,
                \* outcome, remote calls issued
    stranded,   \* history: the datasets in which a call created departments and
                \* then failed to create employees
    track       \* whether this specification records the history

vars == <<db, datasets, tables, rows, last, stranded, track>>

\* what an invocation finds: the datasets and tables of the project and, of the
\* dataset it is given, whether it and its two sample tables exist and how many
\* rows the tables hold
Pre(dataset_name) ==
    [datasets |-> datasets,
     tables |-> tables,
     dataset |-> dataset_name \in datasets,
     departments |-> <<dataset_name, "departments">> \in tables,
     employees |-> <<dataset_name, "employees">> \in tables,
     ndepartments |-> IF dataset_name \in DatasetNames
                      THEN Len(rows[<<dataset_name, "departments">>]) ELSE 0,
     nemployees |-> IF dataset_name \in DatasetNames
                    THEN Len(rows[<<dataset_name, "employees">>]) ELSE 0]

\* the tools whose first argument is a dataset name
DatasetTools ==
    {"create_dataset", "create_sample_tables", "insert_sample_data", "create_complete_sample"}

\* the datasets in which the calls created departments and then failed on employees
Stranded(calls) ==
    {d \in DatasetNames :
        \E i \in 1..(Len(calls) - 1) :
            /\ calls[i].api = "create_table" /\ calls[i].target = d \o ".departments"
            /\ calls[i].ok
            /\ calls[i + 1].api = "create_table" /\ calls[i + 1].target = d \o ".employees"
            /\ ~calls[i + 1].ok}

NoneDb == [init |-> FALSE, project |-> "", location |-> ""]

Init ==
    /\ db = NoneDb
    /\ datasets = {}
    /\ tables = {}
    /\ rows = [k \in TableKeys |-> <<>>]
    /\ last = [tool |-> "none", args |-> <<>>, init |-> FALSE, pre |-> Pre(""), result |-> "",
               raised |-> FALSE, exc |-> NoExc, val |-> <<>>, calls |-> <<>>]
    /\ stranded = {}
    /\ track = FALSE

\* variant of the guard: never taken
NotDb_never(d) == FALSE

\* python: not db
NotDb(d) == ~d.init

\* variant of the handler: except ValueError
ToolReturn_ValueError(c, text) ==
    IF c.exc = NoExc THEN [result |-> text, raised |-> FALSE]
    ELSE IF c.exc.type = "ValueError"
    THEN [result |-> "Error: " \o c.exc.msg, raised |-> FALSE]
    ELSE [result |-> "", raised |-> TRUE]

\* the try/except Exception of every tool: the value or f"Error: {e}"
ToolReturn(c, text) ==
    IF c.exc = NoExc THEN [result |-> text, raised |-> FALSE]
    ELSE IF IsException(c.exc) THEN [result |-> "Error: " \o c.exc.msg, raised |-> FALSE]
    ELSE [result |-> "", raised |-> TRUE]

\* the context a tool starts the wrapper in
Start(env) == Ctx(db.project, datasets, tables, rows, env)

\* the state a tool leaves: the remote state and the record of the invocation
Finish(tool, args, c, r) ==
    /\ datasets' = c.datasets
    /\ tables' = c.tables
    /\ rows' = c.rows
    /\ last' = [tool |-> tool, args |-> args, init |-> db.init, pre |-> Pre(IF tool \in DatasetTools THEN args[1] ELSE ""),
                result |-> r.result, raised |-> r.raised, exc |-> c.exc, val |-> c.val,
                calls |-> c.calls]
    /\ stranded' = IF track THEN stranded \cup Stranded(c.calls) ELSE stranded
    /\ UNCHANGED <<db, track>>

\* if not db: return "Error: Database not initialized"
NotInitialized(tool, args) ==
    /\ last' = [tool |-> tool, args |-> args, init |-> db.init, pre |-> Pre(IF tool \in DatasetTools THEN args[1] ELSE ""),
                result |-> "Error: Database not initialized", raised |-> FALSE,
                exc |-> NoExc, val |-> <<>>, calls |-> <<>>]
    /\ UNCHANGED <<db, datasets, tables, rows, stranded, track>>

RECURSIVE TotalRows(_)
\* the number of rows held by the tables of keys
TotalRows(keys) ==
    IF keys = {} THEN 0
    ELSE LET k == CHOOSE x \in keys : TRUE
         IN  Len(rows[k]) + TotalRows(keys \ {k})

\* the project has room for one more batch of sample rows
RoomFor ==
    TotalRows(TableKeys) + NumDepartments + NumEmployees
        <= MaxBatches * (NumDepartments + NumEmployees)

(* ------------------------------- tools --------------------------------- *)
execute_query ==
    \E query \in SqlInputs, env \in Envs(1, 0) :
        IF NotDb(db) THEN NotInitialized("execute_query", <<query>>)
        ELSE \E c \in {db_execute_query(Start(env), query, <<>>)} :
                 Finish("execute_query", <<query>>, c, ToolReturn(c, StrListOfDict(c.val)))

list_tables ==
    \E env \in Envs(1 + Len(DatasetOrder), 0) :
        IF NotDb(db) THEN NotInitialized("list_tables", <<>>)
        ELSE \E c \in {db_list_tables(Start(env))} :
                 Finish("list_tables", <<>>, c, ToolReturn(c, StrListOfStr(c.val)))

describe_table ==
    \E table_name \in TableNameInputs, env \in Envs(1, 0) :
        IF NotDb(db) THEN NotInitialized("describe_table", <<table_name>>)
        ELSE \E c \in {db_describe_table(Start(env), table_name)} :
                 Finish("describe_table", <<table_name>>, c,
                        ToolReturn(c, StrListOfDict(c.val)))

create_dataset ==
    \E dataset_name \in DatasetNames, location \in {"US", ""}, env \in Envs(1, 0) :
        IF NotDb(db) THEN NotInitialized("create_dataset", <<dataset_name, location>>)
        ELSE \E c \in {db_create_dataset(Start(env), dataset_name, location)} :
                 Finish("create_dataset", <<dataset_name, location>>, c, ToolReturn(c, c.val))

create_sample_tables ==
    \E dataset_name \in DatasetNames, env \in Envs(2, 0) :
        IF NotDb(db) THEN NotInitialized("create_sample_tables", <<dataset_name>>)
        ELSE \E c \in {db_create_sample_tables(Start(env), dataset_name)} :
                 Finish("create_sample_tables", <<dataset_name>>, c, ToolReturn(c, c.val))

insert_sample_data ==
    \E dataset_name \in DatasetNames, env \in Envs(2, 2) :
        /\ RoomFor
        /\ IF NotDb(db) THEN NotInitialized("insert_sample_data", <<dataset_name>>)
           ELSE \E c \in {db_insert_sample_data(Start(env), dataset_name)} :
                    Finish("insert_sample_data", <<dataset_name>>, c, ToolReturn(c, c.val))

create_complete_sample ==
    \E dataset_name \in DatasetNames, location \in {"asia-south1"}, env \in Envs(5, 2) :
        /\ RoomFor
        /\ IF NotDb(db) THEN NotInitialized("create_complete_sample", <<dataset_name, location>>)
           ELSE \E c \in {db_create_complete_sample(Start(env), dataset_name, location)} :
                    Finish("create_complete_sample", <<dataset_name, location>>, c,
                           ToolReturn(c, c.val))

\* BigQueryDatabase.__init__: the checks that precede the client's creation
BigQueryDatabase(project, location, credentials) ==
    IF project = "" THEN Exc("ValueError", "Project is required")
    ELSE IF location = "" THEN Exc("ValueError", "Location is required")
    ELSE IF ~credentials
    THEN Exc("ValueError", "Could not load credentials. Please run 'gcloud auth application-default login' or provide a valid service account key file.")
    ELSE NoExc

\* main: db is assigned only when the constructor returns
main ==
    \E project \in {"", "p1"}, location \in {"", "US"}, credentials \in BOOLEAN :
        LET e == BigQueryDatabase(project, location, credentials) IN
        /\ ~db.init
        /\ db' = IF e = NoExc THEN [init |-> TRUE, project |-> project, location |-> location]
                 ELSE db
        /\ last' = [tool |-> "main", args |-> <<project, location>>, init |-> db.init,
                    pre |-> Pre(""), result |-> "", raised |-> e # NoExc, exc |-> e,
                    val |-> <<>>, calls |-> <<>>]
        /\ UNCHANGED <<datasets, tables, rows, stranded, track>>

Next ==
    \/ main
    \/ execute_query
    \/ list_tables
    \/ describe_table
    \/ create_dataset
    \/ create_sample_tables
    \/ insert_sample_data
    \/ create_complete_sample

Spec == Init /\ [][Next]_vars

\* the same program with the history recorded
InitHistory ==
    /\ db = NoneDb
    /\ datasets = {}
    /\ tables = {}
    /\ rows = [k \in TableKeys |-> <<>>]
    /\ last = [tool |-> "none", args |-> <<>>, init |-> FALSE, pre |-> Pre(""), result |-> "",
               raised |-> FALSE, exc |-> NoExc, val |-> <<>>, calls |-> <<>>]
    /\ stranded = {}
    /\ track = TRUE

SpecHistory == InitHistory /\ [][Next]_vars

(* ------------------------------ properties ----------------------------- *)
ToolNames ==
    {"execute_query", "list_tables", "describe_table", "create_dataset",
     "create_sample_tables", "insert_sample_data", "create_complete_sample"}

\* the last invocation was tool t, dispatched to the wrapper
Dispatched(t) == last.tool = t /\ last.init

\* no remote call of the last invocation failed or reported row errors
AllCallsOk == \A i \in 1..Len(last.calls) : last.calls[i].ok

\* the remote calls of the last invocation, as <<api, target>> pairs
CallTrace == [i \in 1..Len(last.calls) |-> <<last.calls[i].api, last.calls[i].target>>]

HasBoth(d) == <<d, "departments">> \in tables /\ <<d, "employees">> \in tables
DeptOnly(d) == <<d, "departments">> \in tables /\ <<d, "employees">> \notin tables

\* C1: a tool invoked while db is not initialized returns exactly
\* "Error: Database not initialized", does not raise and issues no remote call
C1_NotInitialized ==
    (last.tool \in ToolNames /\ ~last.init) =>
        /\ last.result = "Error: Database not initialized"
        /\ ~last.raised
        /\ last.calls = <<>>
        /\ datasets = last.pre.datasets /\ tables = last.pre.tables

C1_Witness ==
    /\ last.tool = "create_complete_sample" /\ ~last.init
    /\ last.result = "Error: Database not initialized"

\* C2: with db initialized every tool returns a string and never raises; when
\* the wrapper raised, the string is "Error: " followed by the exception message
C2_ErrorsFlattened ==
    (last.tool \in ToolNames /\ last.init) =>
        /\ ~last.raised
        /\ last.result \in STRING
        /\ last.exc # NoExc => last.result = "Error: " \o last.exc.msg

C2_Witness ==
    /\ Dispatched("create_complete_sample")
    /\ last.exc.type = "RuntimeError"
    /\ last.result = "Error: Failed to insert employees: [{'index': 0, 'reason': 'invalid'}]"

\* C3: create_dataset on a project without the dataset returns "Dataset <name>
\* created"; on a project that has it, it returns "Dataset <name> already
\* exists", does not raise the conflict and leaves the set of datasets as it
\* was; a remote failure other than already-exists propagates
C3_CreateDatasetTwice ==
    Dispatched("create_dataset") =>
        LET name == last.args[1] IN
        /\ CallTrace = << <<"create_dataset", name>> >>
        /\ (~last.pre.dataset /\ AllCallsOk) =>
               /\ last.exc = NoExc
               /\ last.result = "Dataset " \o name \o " created"
               /\ datasets = last.pre.datasets \cup {name}
        /\ last.pre.dataset =>
               /\ datasets = last.pre.datasets
               /\ last.exc.type # "Conflict"
               /\ last.exc = NoExc => last.result = "Dataset " \o name \o " already exists"
        /\ last.exc # NoExc =>
               /\ last.exc = Exc("ServiceUnavailable", "503 Service Unavailable")
               /\ datasets = last.pre.datasets

C3_Witness ==
    /\ Dispatched("create_dataset")
    /\ last.pre.dataset
    /\ last.result = "Dataset d1 already exists"

\* C4: create_complete_sample(name) on a project without dataset name, every
\* remote call succeeding, creates the dataset, then the tables, then inserts
\* the data, and returns the three status lines joined in that order
C4_CompleteSampleOrder ==
    (Dispatched("create_complete_sample") /\ ~last.pre.dataset /\ AllCallsOk) =>
        LET name == last.args[1] IN
        /\ CallTrace = << <<"create_dataset", name>>,
                          <<"create_table", name \o ".departments">>,
                          <<"create_table", name \o ".employees">>,
                          <<"insert_rows_json", db.project \o "." \o name \o ".departments">>,
                          <<"insert_rows_json", db.project \o "." \o name \o ".employees">> >>
        /\ last.exc = NoExc
        /\ last.result = "Dataset " \o name \o " created\nSample tables created\n"
                         \o "Sample data inserted (10 departments, 50 employees)"

C4_Witness ==
    /\ Dispatched("create_complete_sample") /\ ~last.pre.dataset /\ AllCallsOk
    /\ last.args[1] = "d1"
    /\ Len(rows[<<"d1", "employees">>]) = 50

\* what a failed create_complete_sample leaves: no remote call follows a failed
\* one (but for the tolerated dataset conflict), the error is returned, and the
\* effect of every call that succeeded is in the remote state
CompleteSamplePartial ==
    Dispatched("create_complete_sample") =>
        LET name == last.args[1]
            n == Len(last.calls)
            dept == <<name, "departments">>
            emp == <<name, "employees">>
        IN  /\ \A i \in 1..(n - 1) :
                   last.calls[i].ok \/ (i = 1 /\ last.calls[i].api = "create_dataset")
            /\ last.exc # NoExc =>
                   /\ n >= 1 /\ ~last.calls[n].ok
                   /\ last.result = "Error: " \o last.exc.msg
            /\ \A i \in 1..n : last.calls[i].ok =>
                   LET k == last.calls[i] IN
                   /\ k.api = "create_dataset" => k.target \in datasets
                   /\ (k.api = "create_table" /\ k.target = name \o ".departments")
                          => dept \in tables
                   /\ (k.api = "create_table" /\ k.target = name \o ".employees")
                          => emp \in tables
                   /\ (k.api = "insert_rows_json"
                       /\ k.target = db.project \o "." \o name \o ".departments")
                          => /\ Len(rows[dept]) = last.pre.ndepartments + NumDepartments
                             /\ SubSeq(rows[dept], last.pre.ndepartments + 1, Len(rows[dept]))
                                    = SampleDepartments
                   /\ (k.api = "insert_rows_json"
                       /\ k.target = db.project \o "." \o name \o ".employees")
                          => Len(rows[emp]) = last.pre.nemployees + NumEmployees

\* a step that deletes no dataset, no table and no row
NoDeletionStep ==
    /\ datasets \subseteq datasets'
    /\ tables \subseteq tables'
    /\ \A k \in TableKeys :
           /\ Len(rows[k]) <= Len(rows'[k])
           /\ SubSeq(rows'[k], 1, Len(rows[k])) = rows[k]

C6_CreateTablesTwice ==
    (Dispatched("create_sample_tables") /\ last.pre.departments /\ last.pre.employees) =>
        LET name == last.args[1] IN
        /\ last.exc # NoExc
        /\ last.result # "Sample tables created"
        /\ CallTrace = << <<"create_table", name \o ".departments">> >>
        /\ last.exc.type # "ServiceUnavailable" =>
               last.exc = Exc("Conflict", "409 Already Exists: Table " \o db.project
                                          \o ":" \o name \o ".departments")
        /\ last.result = "Error: " \o last.exc.msg
        /\ tables = last.pre.tables
        /\ Len(rows[<<name, "departments">>]) = last.pre.ndepartments
        /\ Len(rows[<<name, "employees">>]) = last.pre.nemployees

C6_Witness ==
    /\ Dispatched("create_sample_tables") /\ last.pre.departments /\ last.pre.employees
    /\ last.exc.type = "Conflict"
    /\ HasBoth(last.args[1])

\* C7: insert_sample_data on a dataset whose two sample tables exist and are
\* empty, no remote call failing, inserts 10 department rows and then 50
\* employee rows, each employee's dept_id being one of the 10 department ids;
\* when the departments insert fails or reports row errors, the call raises and
\* the employees insert is not attempted
C7_SampleData ==
    Dispatched("insert_sample_data") =>
        LET name == last.args[1]
            dept == rows[<<name, "departments">>]
            emp == rows[<<name, "employees">>]
        IN  /\ (/\ last.pre.departments /\ last.pre.employees
                /\ last.pre.ndepartments = 0 /\ last.pre.nemployees = 0
                /\ AllCallsOk) =>
                   /\ CallTrace =
                          << <<"insert_rows_json", db.project \o "." \o name \o ".departments">>,
                             <<"insert_rows_json", db.project \o "." \o name \o ".employees">> >>
                   /\ last.calls[1].payload = 10 /\ last.calls[2].payload = 50
                   /\ Len(dept) = 10 /\ Len(emp) = 50
                   /\ Cardinality({dept[j].dept_id : j \in 1..Len(dept)}) = 10
                   /\ \A i \in 1..Len(emp) :
                          emp[i].dept_id \in {dept[j].dept_id : j \in 1..Len(dept)}
                   /\ last.result = "Sample data inserted (10 departments, 50 employees)"
            /\ (Len(last.calls) >= 1 /\ ~last.calls[1].ok) =>
                   /\ last.exc # NoExc
                   /\ Len(last.calls) = 1
                   /\ Len(emp) = last.pre.nemployees

C7_Witness ==
    /\ Dispatched("insert_sample_data") /\ AllCallsOk
    /\ last.pre.departments /\ last.pre.employees
    /\ last.pre.ndepartments = 0 /\ last.pre.nemployees = 0
    /\ Len(rows[<<last.args[1], "employees">>]) = 50

\* the positions of the dots of s
Dots(s) == {i \in 1..Len(s) : Char(s, i) = "."}
LastDot(s) == CHOOSE i \in Dots(s) : \A j \in Dots(s) : j <= i

\* C8: describe_table on a name whose number of dot-separated segments is not 2
\* or 3 fails with a ValueError before any remote call; on a name of 2 or 3
\* segments it issues exactly one parameterized query against the schema view
\* of the dataset named by all segments but the last, with the last segment as
\* the table_name parameter
C8_DescribeTable ==
    Dispatched("describe_table") =>
        LET table_name == last.args[1]
            segments == Cardinality(Dots(table_name)) + 1
        IN  /\ segments \notin {2, 3} =>
                   /\ last.exc = Exc("ValueError", "Invalid table name: " \o table_name)
                   /\ last.calls = <<>>
            /\ segments \in {2, 3} =>
                   /\ Len(last.calls) = 1
                   /\ last.calls[1].api = "query"
                   /\ Contains(last.calls[1].target,
                               "FROM " \o SubSeq(table_name, 1, LastDot(table_name) - 1)
                               \o ".INFORMATION_SCHEMA.TABLES\n")
                   /\ Contains(last.calls[1].target, "WHERE table_name = @table_name;")
                   /\ last.calls[1].payload =
                          << [name |-> "table_name", type |-> "STRING",
                              value |-> SubSeq(table_name, LastDot(table_name) + 1,
                                               Len(table_name))] >>

C8_Witness ==
    /\ Dispatched("describe_table")
    /\ last.args[1] = "a.b.c.d"
    /\ last.result = "Error: Invalid table name: a.b.c.d"

\* C9: list_tables returns one "<dataset_id>.<table_id>" string for every table
\* of every dataset of the project, without duplicates or omissions, and
\* nothing else
C9_ListTables ==
    (Dispatched("list_tables") /\ last.exc = NoExc) =>
        /\ {last.val[i] : i \in 1..Len(last.val)} = {k[1] \o "." \o k[2] : k \in tables}
        /\ Len(last.val) = Cardinality(tables)
        /\ tables = last.pre.tables /\ datasets = last.pre.datasets

C9_Witness ==
    /\ Dispatched("list_tables") /\ last.exc = NoExc
    /\ Cardinality(datasets) = 2
    /\ Cardinality(tables) >= 3
    /\ last.result = "['d1.departments', 'd1.employees', 'd2.departments']"

====
